---- MODULE Spec2Model ----
(***************************************************************************)
(* Astra file_input: the SPSC ring and its wakeup channel, the consumer    *)
(* bridge, the producer thread (thread_loop / open_file), the control      *)
(* surface and the lock file.  Offsets and counters are in bytes, as in    *)
(* the source; a 188-byte payload is copied in two halves so that a torn   *)
(* copy is visible.  Each struct of the source is one record variable.     *)
(***************************************************************************)
EXTENDS Integers, Sequences, FiniteSets, TLC

(* ------------------------------ constants ----------------------------- *)

TS_PACKET_SIZE == 188

M2TS_PACKET_SIZE == 192

\* number of 188-byte slots of the ring (2048 in the source, scaled down)
SyncSlots == 2

SYNC_BUFFER_SIZE == TS_PACKET_SIZE * SyncSlots

\* buffer_count, buffer_overflow, start_time, length are uint32_t. A
\* difference that wraps below 0 is at least 2^32 - 2^31; here it is the
\* largest number there is, which every comparison of the source treats alike.
Huge32 == 2147483647

Sub32(a, b) == IF a >= b THEN a - b ELSE Huge32

\* the wakeup bytes
CMD_PACKET == 0

CMD_EXIT == 255

\* how many packets the producer side offers to the ring in one behaviour
MaxOffers == 5

\* content of memory that was never written
Uninit == 0

NULL == -1

(* ------------------------------ state --------------------------------- *)

VARIABLES
    sync,   \* mod->sync: buffer (slot -> two halves), buffer_count,
            \* buffer_read, buffer_write, buffer_overflow, and chan, the
            \* bytes in flight on the socket pair fd[0] -> fd[1]
    mod,    \* the other fields of module_data_t
    input,  \* mod->input: buffer, ptr, skip
    disk,   \* the surroundings of the run: the file being played, the lock
            \* file, whether the clock steps backwards, and how many
            \* position() requests the script makes
    thr,    \* the producer thread: pc and its locals
    evl,    \* the event loop thread: pc and the locals of its handlers
    hist    \* history: what was offered, accepted, popped, forwarded, logged

vars == <<sync, mod, input, disk, thr, evl, hist>>

\* what the ring and the consumer bridge never touch
filevars == <<mod, input, disk>>

Slot(off) == off \div TS_PACKET_SIZE

Last(s) == s[Len(s)]

Payload(p) == <<p, p>>

(* --------------------------- sync_queue_push -------------------------- *)

\* the overflow test off by one
PushFull_gt == sync.buffer_count > SYNC_BUFFER_SIZE

\* line 234
PushFull == sync.buffer_count >= SYNC_BUFFER_SIZE

\* sync_queue_push without line 243: the tally is reported and kept
sync_queue_push_noreset(ts, after) ==
    IF ts = NULL
    THEN /\ sync' = [sync EXCEPT !.chan = Append(@, CMD_EXIT)]
         /\ hist' = [hist EXCEPT !.sentinels = @ + 1,
                                 !.wakes = Append(@, CMD_EXIT)]
         /\ thr' = [thr EXCEPT !.pc = after]
    ELSE IF PushFull
    THEN /\ sync' = [sync EXCEPT !.buffer_overflow = @ + 1]
         /\ hist' = [hist EXCEPT !.offered = Append(@, ts),
                                 !.paused_offers =
                                     IF mod.pause # 0 THEN @ + 1 ELSE @,
                                 !.after_eof = IF @ = 0 THEN ts ELSE @,
                                 !.dropped = @ + 1]
         /\ thr' = [thr EXCEPT !.pc = after]
    ELSE /\ UNCHANGED sync
         /\ hist' = [hist EXCEPT !.offered = Append(@, ts),
                                 !.paused_offers =
                                     IF mod.pause # 0 THEN @ + 1 ELSE @,
                                 !.after_eof = IF @ = 0 THEN ts ELSE @,
                                 !.reports = IF sync.buffer_overflow # 0
                                             THEN Append(@, sync.buffer_overflow)
                                             ELSE @]
         /\ thr' = [thr EXCEPT !.pc = "push_copy", !.ts = ts, !.after = after]

\* lines 226-244: the sentinel, the overflow test and the overflow report.
\* after is where the caller goes on.
sync_queue_push(ts, after) ==
    IF ts = NULL
    THEN /\ sync' = [sync EXCEPT !.chan = Append(@, CMD_EXIT)]
         /\ hist' = [hist EXCEPT !.sentinels = @ + 1,
                                 !.wakes = Append(@, CMD_EXIT)]
         /\ thr' = [thr EXCEPT !.pc = after]
    ELSE IF PushFull
    THEN /\ sync' = [sync EXCEPT !.buffer_overflow = @ + 1]
         /\ hist' = [hist EXCEPT !.offered = Append(@, ts),
                                 !.paused_offers =
                                     IF mod.pause # 0 THEN @ + 1 ELSE @,
                                 !.after_eof = IF @ = 0 THEN ts ELSE @,
                                 !.dropped = @ + 1]
         /\ thr' = [thr EXCEPT !.pc = after]
    ELSE /\ sync' = [sync EXCEPT !.buffer_overflow = 0]
         /\ hist' = [hist EXCEPT !.offered = Append(@, ts),
                                 !.paused_offers =
                                     IF mod.pause # 0 THEN @ + 1 ELSE @,
                                 !.after_eof = IF @ = 0 THEN ts ELSE @,
                                 !.reports = IF sync.buffer_overflow # 0
                                             THEN Append(@, sync.buffer_overflow)
                                             ELSE @]
         /\ thr' = [thr EXCEPT !.pc = "push_copy", !.ts = ts, !.after = after]

\* line 246, first half of the memcpy
PushCopy ==
    /\ thr.pc = "push_copy"
    /\ sync' = [sync EXCEPT !.buffer[Slot(sync.buffer_write)][1] = thr.ts]
    /\ thr' = [thr EXCEPT !.pc = "push_copy2"]
    /\ UNCHANGED <<hist, evl, filevars>>

\* the write index never advanced
PushWriteNext_stuck == sync.buffer_write

\* lines 247-249
PushWriteNext ==
    IF sync.buffer_write + TS_PACKET_SIZE >= SYNC_BUFFER_SIZE
    THEN 0 ELSE sync.buffer_write + TS_PACKET_SIZE

\* line 246, second half of the memcpy, and lines 247-249
PushCopy2 ==
    /\ thr.pc = "push_copy2"
    /\ sync' = [sync EXCEPT !.buffer[Slot(sync.buffer_write)][2] = thr.ts,
                            !.buffer_write = PushWriteNext]
    /\ thr' = [thr EXCEPT !.pc = "push_add"]
    /\ UNCHANGED <<hist, evl, filevars>>

\* line 251
PushAdd ==
    /\ thr.pc = "push_add"
    /\ sync' = [sync EXCEPT !.buffer_count = @ + TS_PACKET_SIZE]
    /\ hist' = [hist EXCEPT !.accepted = Append(@, thr.ts)]
    /\ thr' = [thr EXCEPT !.pc = "push_send"]
    /\ UNCHANGED <<evl, filevars>>

\* lines 253-255
PushSend ==
    /\ thr.pc = "push_send"
    /\ sync' = [sync EXCEPT !.chan = Append(@, CMD_PACKET)]
    /\ hist' = [hist EXCEPT !.wakes = Append(@, CMD_PACKET)]
    /\ thr' = [thr EXCEPT !.pc = thr.after]
    /\ UNCHANGED <<evl, filevars>>

(* ---------------------------- sync_queue_pop --------------------------- *)

\* line 261 and lines 264-272: the event loop calls on_thread_read when the
\* socket is readable
PopRecv ==
    /\ evl.pc = "idle"
    /\ sync.chan # <<>>
    /\ sync' = [sync EXCEPT !.chan = Tail(@)]
    /\ IF Head(sync.chan) = CMD_EXIT
       THEN /\ hist' = [hist EXCEPT !.eof_calls =
                            IF mod.idx_callback # 0 THEN @ + 1 ELSE @]
            /\ \E g \in {Payload(Uninit), evl.ts} :
                  evl' = [evl EXCEPT !.pc = "stream_send", !.ts = g,
                                     !.cmd = CMD_EXIT]
       ELSE /\ \E g \in {Payload(Uninit), evl.ts} :
                  evl' = [evl EXCEPT !.pc = "pop_copy", !.ts = g,
                                     !.cmd = Head(sync.chan)]
            /\ UNCHANGED hist
    /\ UNCHANGED <<thr, filevars>>

\* line 274, first half of the memcpy
PopCopy ==
    /\ evl.pc = "pop_copy"
    /\ evl' = [evl EXCEPT !.pc = "pop_copy2",
                          !.ts[1] = sync.buffer[Slot(sync.buffer_read)][1]]
    /\ UNCHANGED <<sync, thr, hist, filevars>>

\* the read index advanced without the wrap
PopReadNext_nowrap == sync.buffer_read + TS_PACKET_SIZE

\* lines 275-277
PopReadNext ==
    IF sync.buffer_read + TS_PACKET_SIZE >= SYNC_BUFFER_SIZE
    THEN 0 ELSE sync.buffer_read + TS_PACKET_SIZE

\* line 274, second half of the memcpy, and lines 275-277
PopCopy2 ==
    /\ evl.pc = "pop_copy2"
    /\ evl' = [evl EXCEPT !.pc = "pop_sub",
                          !.ts[2] = sync.buffer[Slot(sync.buffer_read)][2]]
    /\ sync' = [sync EXCEPT !.buffer_read = PopReadNext]
    /\ UNCHANGED <<thr, hist, filevars>>

\* line 279
PopSub ==
    /\ evl.pc = "pop_sub"
    /\ sync' = [sync EXCEPT !.buffer_count = Sub32(@, TS_PACKET_SIZE)]
    /\ hist' = [hist EXCEPT !.popped = Append(@, evl.ts)]
    /\ evl' = [evl EXCEPT !.pc = "stream_send"]
    /\ UNCHANGED <<thr, filevars>>

(* ---------------------------- on_thread_read --------------------------- *)

\* line 479: whatever ts[] holds goes downstream
StreamSend ==
    /\ evl.pc = "stream_send"
    /\ hist' = [hist EXCEPT !.down = Append(@, [ts |-> evl.ts, cmd |-> evl.cmd])]
    /\ evl' = [evl EXCEPT !.pc = "idle"]
    /\ UNCHANGED <<sync, thr, filevars>>

on_thread_read == PopRecv \/ PopCopy \/ PopCopy2 \/ PopSub \/ StreamSend

(* ------------------------------ the file ------------------------------- *)

\* bytes of the input window (buffer_size MiB in the source, scaled down)
InputSize == 600

\* 250 ms of 27 MHz ticks: the block time guard of line 375
MaxBlockTicks == 250 * 27000

\* A cell of a file: whether its sync byte is 0x47, whether check_pcr holds
\* on its TS header, what calc_pcr and m2ts_time return on it.
Cell(sy, pf, pv, tm) == [sync |-> sy, pcrf |-> pf, pcr |-> pv, time |-> tm]

FileSize(f) == Len(f.cells) * f.cs

\* offset of the sync byte in a cell
SyncOff(f) == IF f.cs = M2TS_PACKET_SIZE THEN 4 ELSE 0

\* whether the byte at offset off of the file is 0x47 (the files drawn hold
\* 0x47 nowhere but at the sync offset of a cell)
FileByteIsSync(f, off) ==
    /\ off < FileSize(f)
    /\ off % f.cs = SyncOff(f)
    /\ f.cells[off \div f.cs + 1].sync

\* number of cells that begin inside the input window
WinEntries(f) == (InputSize + f.cs - 1) \div f.cs

Min(a, b) == IF a < b THEN a ELSE b

\* pread(fd, buf, size, off): the byte count returned
PreadLen(f, size, off) ==
    IF off >= FileSize(f) THEN 0 ELSE Min(size, FileSize(f) - off)

\* pread(fd, input.buffer, input.size, off): the window afterwards. Entry k
\* holds the index of the file cell whose bytes lie at k * cs, 0 when the
\* bytes there were never written.
PreadWindow(f, buf, off) ==
    [k \in 1..WinEntries(f) |->
        IF (k - 1) * f.cs < PreadLen(f, InputSize, off)
        THEN off \div f.cs + k
        ELSE buf[k]]

\* the stride of a TS stream whatever ts_size is
Stride_188(ts_size) == TS_PACKET_SIZE

\* the stride thread_loop and open_file pick (lines 216, 335, 363):
\* TS_PACKET_SIZE when ts_size is 188, M2TS_PACKET_SIZE otherwise
Stride(ts_size) ==
    IF ts_size = TS_PACKET_SIZE THEN TS_PACKET_SIZE ELSE M2TS_PACKET_SIZE

\* Whether the 12 header bytes of the TS packet of the cell at window offset
\* p, read in strides of s, are bytes of a cell of the file. Otherwise they
\* are bytes never written, or bytes from the middle of a cell.
HdrReadable(buf, p, s) ==
    /\ disk.file.cs = s
    /\ p >= 0
    /\ p % s = 0
    /\ p + (s - TS_PACKET_SIZE) + 12 <= InputSize
    /\ buf[p \div s + 1] # 0

CellOf(buf, p, s) == disk.file.cells[buf[p \div s + 1]]

\* check_pcr on the cell at window offset p can return b
check_pcr(buf, p, s, b) ==
    IF HdrReadable(buf, p, s) THEN CellOf(buf, p, s).pcrf = b ELSE TRUE

\* the values calc_pcr of an unreadable header may return
GarbagePcr == {0, 2 * MaxBlockTicks}

\* calc_pcr on the cell at window offset p: the values it can return
calc_pcr(buf, p, s) ==
    IF HdrReadable(buf, p, s) THEN {CellOf(buf, p, s).pcr} ELSE GarbagePcr

\* the window offsets seek_pcr visits from ptr: lines 119-120, 131-132
SeekFrom(ptr, s) ==
    {q \in ptr + s .. InputSize - 1 : (q - ptr) % s = 0}

\* seek_pcr_188 / seek_pcr_192: the results it can return (NULL included)
seek_pcr(buf, ptr, s) ==
    {q \in SeekFrom(ptr, s) :
        /\ check_pcr(buf, q, s, TRUE)
        /\ \A r \in SeekFrom(ptr, s) : r < q => check_pcr(buf, r, s, FALSE)}
    \cup (IF \A r \in SeekFrom(ptr, s) : check_pcr(buf, r, s, FALSE)
          THEN {NULL} ELSE {})

\* a segmentation fault or a division by zero ends the process
Crash ==
    /\ thr' = [thr EXCEPT !.pc = "crashed"]
    /\ evl' = [evl EXCEPT !.pc = "crashed"]

(* ------------------------------ open_file ------------------------------ *)

\* lines 148-169
OpenFd ==
    /\ thr.pc = "open_fd"
    /\ IF ~disk.file.exists
       THEN /\ mod' = [mod EXCEPT !.fd = 0]
            /\ thr' = [thr EXCEPT !.pc = thr.open_after, !.open_ret = 0]
            /\ UNCHANGED input
       ELSE /\ mod' = [mod EXCEPT !.fd = 1, !.file_size = FileSize(disk.file)]
            /\ input' = [input EXCEPT !.skip =
                            IF @ # 0 /\ @ >= FileSize(disk.file) THEN 0 ELSE @]
            /\ thr' = [thr EXCEPT !.pc = "open_pread"]
    /\ UNCHANGED <<sync, disk, evl, hist>>

\* history: the pread of line 171 was done at input.skip
HistPread ==
    [hist EXCEPT !.first_read = IF @ = NULL THEN input.skip ELSE @,
                 !.reopen_at = input.skip,
                 !.request = IF @ = input.skip THEN NULL ELSE @]

\* lines 208-221, with the fields the probe has set so far
OpenFinish(m, buf, ptr) ==
    IF ptr = NULL
    THEN /\ mod' = [m EXCEPT !.fd = 0]
         /\ input' = [input EXCEPT !.buffer = buf, !.ptr = ptr]
         /\ thr' = [thr EXCEPT !.pc = thr.open_after, !.open_ret = 0]
         /\ hist' = HistPread
         /\ UNCHANGED evl
    ELSE /\ \E v \in calc_pcr(buf, ptr, Stride(m.ts_size)) :
                mod' = [m EXCEPT !.pcr = v]
         /\ input' = [input EXCEPT !.buffer = buf, !.ptr = ptr]
         /\ thr' = [thr EXCEPT !.pc = thr.open_after, !.open_ret = 1]
         /\ hist' = [HistPread EXCEPT !.start =
                        IF @ = NULL THEN buf[ptr \div Stride(m.ts_size) + 1]
                        ELSE @]
         /\ UNCHANGED evl

\* line 186, m2ts_time(mod->input.ptr) / 1000: the values it can give when
\* it returns. Through a null cursor the four bytes read are indeterminate.
M2tsStart(buf, ptr) ==
    IF ptr = NULL THEN {0, Huge32}
    ELSE {CellOf(buf, ptr, M2TS_PACKET_SIZE).time \div 1000}

\* lines 186-198: start_time and length of an M2TS file
ProbeM2ts(m, start) ==
    LET f == disk.file
        tail == FileSize(f) - M2TS_PACKET_SIZE
        stop == f.cells[tail \div f.cs + 1].time \div 1000
    IN  [m EXCEPT !.ts_size = M2TS_PACKET_SIZE,
                  !.start_time = start,
                  !.length = IF FileByteIsSync(f, tail + 4)
                             THEN Sub32(stop, start) ELSE @]

\* lines 176 and 181 with input.buffer NULL and input.end NULL: the reads
\* of buffer[0], buffer[188], buffer[4], buffer[196] are undefined. They
\* fault, or they give bytes for which the probe finds no PCR below end or
\* no format (lines 201-213).
NullWindowRead ==
    /\ \/ Crash /\ UNCHANGED mod
       \/ /\ mod' = [mod EXCEPT !.fd = 0]
          /\ thr' = [thr EXCEPT !.pc = thr.open_after, !.open_ret = 0]
          /\ UNCHANGED evl
    /\ hist' = HistPread
    /\ UNCHANGED input

\* lines 171-221
OpenPread ==
    /\ thr.pc = "open_pread"
    /\ LET f == disk.file
           len == PreadLen(f, input.size, input.skip)
           buf == PreadWindow(f, input.buffer, input.skip)
       IN  IF len # input.size
           THEN OpenFinish(mod, buf, input.ptr)
           ELSE IF input.size = 0
           THEN NullWindowRead
           ELSE IF /\ FileByteIsSync(f, input.skip)
                   /\ FileByteIsSync(f, input.skip + TS_PACKET_SIZE)
           THEN \E q \in seek_pcr(buf, 0, TS_PACKET_SIZE) :
                   OpenFinish([mod EXCEPT !.ts_size = TS_PACKET_SIZE], buf, q)
           ELSE IF /\ FileByteIsSync(f, input.skip + 4)
                   /\ FileByteIsSync(f, input.skip + 4 + M2TS_PACKET_SIZE)
           THEN \E q \in seek_pcr(buf, 0, M2TS_PACKET_SIZE) :
                   \/ /\ q = NULL
                      /\ Crash
                      /\ hist' = HistPread
                      /\ UNCHANGED <<mod, input>>
                   \/ \E start \in M2tsStart(buf, q) :
                         OpenFinish(ProbeM2ts(mod, start), buf, q)
           ELSE /\ mod' = [mod EXCEPT !.fd = 0]
                /\ input' = [input EXCEPT !.buffer = buf]
                /\ thr' = [thr EXCEPT !.pc = thr.open_after, !.open_ret = 0]
                /\ hist' = HistPread
                /\ UNCHANGED evl
    /\ UNCHANGED <<sync, disk>>

(* ----------------------------- thread_loop ----------------------------- *)

\* The pacing accumulators of thread_loop. time_sync_b is "now" when it
\* holds a reading of the clock taken since the last packet was paced and
\* "earlier" otherwise; the three doubles are 0 or 1, 1 for any value
\* other than 0.
ResetAcc ==
    [time_sync_b |-> "now", block_time_total |-> 0, total_sync_diff |-> 0,
     pause_total |-> 0]

\* lines 298-309
StartRet ==
    /\ thr.pc = "start_ret"
    /\ thr' = [thr EXCEPT !.pc = IF thr.open_ret = 0 THEN "exited" ELSE "loop_top",
                          !.acc = ResetAcc]
    /\ UNCHANGED <<sync, mod, input, disk, evl, hist>>

\* the loop condition of asc_thread_while: the stop flag of the thread is
\* not raised
asc_thread_while == ~sync.exit

\* line 311
LoopTop ==
    /\ thr.pc = "loop_top"
    /\ thr' = [thr EXCEPT !.pc = IF asc_thread_while THEN "pause_chk"
                                 ELSE "closing"]
    /\ hist' = [hist EXCEPT !.sync_back = FALSE]
    /\ UNCHANGED <<sync, mod, input, disk, evl>>

\* line 313
PauseChk ==
    /\ thr.pc = "pause_chk"
    /\ thr' = [thr EXCEPT !.pc = IF mod.pause # 0 THEN "pause_wait" ELSE "repos_chk"]
    /\ UNCHANGED <<sync, mod, input, disk, evl, hist>>

\* the accumulators left as they are
PauseResume_keep == thr.acc

\* lines 318-321
PauseResume == ResetAcc

\* lines 315-321: the loop is left once pause reads 0
PauseWait ==
    /\ thr.pc = "pause_wait"
    /\ mod.pause = 0
    /\ thr' = [thr EXCEPT !.pc = "repos_chk", !.acc = PauseResume,
                          !.resumed = TRUE]
    /\ UNCHANGED <<sync, mod, input, disk, evl, hist>>

\* lines 324-326
ReposChk ==
    /\ thr.pc = "repos_chk"
    /\ thr' = IF mod.reposition
              THEN [thr EXCEPT !.pc = "open_fd", !.open_after = "repos_ret"]
              ELSE [thr EXCEPT !.pc = "seek"]
    /\ UNCHANGED <<sync, mod, input, disk, evl, hist>>

\* lines 328-332: the result of open_file is not looked at
ReposRet ==
    /\ thr.pc = "repos_ret"
    /\ mod' = [mod EXCEPT !.reposition = FALSE]
    /\ thr' = [thr EXCEPT !.pc = "seek", !.acc = ResetAcc]
    /\ UNCHANGED <<sync, input, disk, evl, hist>>

\* the delta taken as a signed number: a PCR below pcr_last is in range
BlockOutOfRange_signed(pcr) == pcr - mod.pcr > MaxBlockTicks

\* lines 368-375: block_time > 250. delta_pcr is uint64_t: a PCR below
\* pcr_last wraps to more than 2^63 ticks.
BlockOutOfRange(pcr) == pcr < mod.pcr \/ pcr - mod.pcr > MaxBlockTicks

\* lines 335-387: find the end of the block, take its PCR, skip the block
\* when its time is out of range
SeekBlock ==
    /\ thr.pc = "seek"
    /\ IF input.ptr = NULL
       THEN Crash /\ UNCHANGED <<mod, input>>
       ELSE \E be \in seek_pcr(input.buffer, input.ptr, Stride(mod.ts_size)) :
              IF be = NULL
              THEN /\ thr' = [thr EXCEPT !.pc = "refill_rd"]
                   /\ UNCHANGED <<mod, input, evl>>
              ELSE IF mod.ts_size = 0
              THEN Crash /\ UNCHANGED <<mod, input>>
              ELSE \E v \in calc_pcr(input.buffer, be, Stride(mod.ts_size)) :
                     /\ mod' = [mod EXCEPT !.pcr = v]
                     /\ IF BlockOutOfRange(v)
                        THEN /\ input' = [input EXCEPT !.ptr = be]
                             /\ thr' = [thr EXCEPT !.pc = "loop_top",
                                                   !.acc = ResetAcc]
                        ELSE /\ thr' = [thr EXCEPT
                                         !.pc = "in_pause",
                                         !.block_end = be,
                                         !.acc.block_time_total = 1,
                                         !.pause_block = 0,
                                         !.resumed = FALSE]
                             /\ UNCHANGED input
                     /\ UNCHANGED evl
    /\ UNCHANGED <<sync, disk, hist>>

\* lines 343-344: the read of input.skip in input.skip += done
RefillRd ==
    /\ thr.pc = "refill_rd"
    /\ thr' = [thr EXCEPT !.pc = "refill_wr", !.skip_rd = input.skip]
    /\ UNCHANGED <<sync, mod, input, disk, evl, hist>>

\* lines 344-347: the write of input.skip and the pread. A pread on fd 0
\* (a failed reopen) fails.
RefillWr ==
    /\ thr.pc = "refill_wr"
    /\ LET f == disk.file
           off == thr.skip_rd + input.ptr
       IN  /\ input' = [input EXCEPT
                           !.buffer = IF mod.fd = 0 THEN @
                                      ELSE PreadWindow(f, @, off),
                           !.ptr = 0, !.skip = off]
           /\ thr' = [thr EXCEPT !.pc = "refill_eof", !.skip_rd = 0,
                         !.len = IF mod.fd = 0 THEN -1
                                 ELSE PreadLen(f, InputSize, off)]
    /\ UNCHANGED <<sync, mod, disk, evl, hist>>

\* the sentinel sent at every short read, loop or not
EofSendsSentinel_always == TRUE

\* line 351
EofSendsSentinel == ~mod.loop

\* lines 349-360: a short read is the end of the file
RefillEof ==
    /\ thr.pc = "refill_eof"
    /\ IF thr.len # InputSize
       THEN IF EofSendsSentinel
            THEN /\ sync_queue_push(NULL, "closing")
                 /\ UNCHANGED <<mod, input>>
            ELSE /\ input' = [input EXCEPT !.skip = 0]
                 /\ mod' = [mod EXCEPT !.reposition = TRUE]
                 /\ thr' = [thr EXCEPT !.pc = "loop_top"]
                 /\ hist' = [hist EXCEPT !.after_eof = 0]
                 /\ UNCHANGED sync
       ELSE /\ thr' = [thr EXCEPT !.pc = "loop_top"]
            /\ UNCHANGED <<sync, mod, input, hist>>
    /\ UNCHANGED <<disk, evl>>

\* lines 402-404
InPause ==
    /\ thr.pc = "in_pause"
    /\ thr' = [thr EXCEPT !.pc = IF mod.pause # 0 THEN "in_pause_wait" ELSE "in_repos"]
    /\ UNCHANGED <<sync, mod, input, disk, evl, hist>>

\* lines 410, 428 and 442: whether asc_utime() is found below an earlier
\* reading
ClockWentBack == IF disk.steps_back THEN BOOLEAN ELSE {FALSE}

\* line 455: whether total_sync_diff is found outside [-100, 100]; with a
\* steady clock and a producer that keeps its pace it is not
SyncOutOfRange == IF disk.steps_back THEN BOOLEAN ELSE {FALSE}

\* line 446: the drift forced when the clock is found below time_sync_b
ForcedSyncDiff == -1000000

\* lines 439-452, total_sync_diff before the range test: the forced value
\* when the reading is below time_sync_b, else the drift, 101 standing for
\* any drift outside [-100, 100] and 1 for any drift inside
SyncDiff(back, out) ==
    IF back THEN ForcedSyncDiff ELSE IF out THEN 101 ELSE 1

\* lines 433-462, the accumulators after a block: pause_total takes
\* pause_block; unless a reposition is pending the drift is computed, and
\* everything is reset when it is below -100 or above 100
BlockEndAcc(back, out) ==
    LET a == [thr.acc EXCEPT !.pause_total =
                 IF thr.pause_block # 0 THEN 1 ELSE @]
        d == SyncDiff(back, out)
    IN  IF mod.reposition THEN a
        ELSE IF d < -100 \/ d > 100 THEN ResetAcc
        ELSE [a EXCEPT !.total_sync_diff = d]

\* lines 406-413: the loop is left once pause reads 0; the clock may have
\* gone backwards meanwhile
InPauseWait ==
    /\ thr.pc = "in_pause_wait"
    /\ mod.pause = 0
    /\ \E timetravel \in ClockWentBack :
          /\ mod' = [mod EXCEPT !.reposition = IF timetravel THEN TRUE ELSE @]
          /\ thr' = [thr EXCEPT !.pc = "in_repos",
                                !.pause_block = IF timetravel THEN @ ELSE 1]
    /\ UNCHANGED <<sync, input, disk, evl, hist>>

\* GET_TS_PTR(mod->input.ptr), line 363: the payload at the cursor
PayloadAtPtr == input.buffer[input.ptr \div Stride(mod.ts_size) + 1]

\* lines 416-419
InRepos ==
    /\ thr.pc = "in_repos"
    /\ IF mod.reposition
       THEN /\ thr' = [thr EXCEPT !.pc = "loop_top", !.block_end = 0,
                                   !.acc = BlockEndAcc(FALSE, FALSE)]
            /\ UNCHANGED <<sync, hist>>
       ELSE /\ Len(hist.offered) < MaxOffers
            /\ sync_queue_push(PayloadAtPtr, "advance")
    /\ UNCHANGED <<mod, input, disk, evl>>

\* lines 420-431 and 436-462: advance the cursor; leave the block when the
\* clock went backwards or the block is done
Advance ==
    /\ thr.pc = "advance"
    /\ input' = [input EXCEPT !.ptr = @ + mod.ts_size]
    /\ \E timetravel \in ClockWentBack :
          IF ~timetravel /\ input.ptr + mod.ts_size < thr.block_end
          THEN /\ thr' = [thr EXCEPT !.pc = "in_pause",
                                     !.acc.time_sync_b = "earlier"]
               /\ UNCHANGED hist
          ELSE \E back \in ClockWentBack, out \in SyncOutOfRange :
                 LET a == BlockEndAcc(back, out)
                 IN  /\ thr' = [thr EXCEPT !.pc = "loop_top",
                               !.block_end = 0,
                               !.acc = [a EXCEPT !.time_sync_b =
                                          IF a = ResetAcc THEN "now"
                                          ELSE "earlier"]]
                     /\ hist' = [hist EXCEPT !.sync_back =
                                    back /\ ~mod.reposition]
    /\ UNCHANGED <<sync, mod, disk, evl>>

\* lines 465-470
Closing ==
    /\ thr.pc = "closing"
    /\ mod' = [mod EXCEPT !.fd = 0]
    /\ input' = [input EXCEPT !.skip = IF mod.fd > 0 THEN 0 ELSE @]
    /\ thr' = [thr EXCEPT !.pc = "exited", !.skip_rd = 0]
    /\ UNCHANGED <<sync, disk, evl, hist>>

thread_loop ==
    \/ OpenFd \/ OpenPread \/ StartRet \/ LoopTop \/ PauseChk \/ PauseWait
    \/ ReposChk \/ ReposRet \/ SeekBlock \/ RefillRd \/ RefillWr \/ RefillEof
    \/ InPause \/ InPauseWait \/ InRepos \/ Advance
    \/ PushCopy \/ PushCopy2 \/ PushAdd \/ PushSend \/ Closing

(* ---------------------------- control surface -------------------------- *)

\* lines 505-509
method_pause ==
    /\ evl.pc = "idle"
    /\ \E n \in {0, 1} :
          /\ n # 0 => hist.pauses < disk.pauses
          /\ mod' = [mod EXCEPT !.pause = n]
          /\ hist' = [hist EXCEPT !.ctl = @ \/ n # 0,
                                  !.pauses = IF n # 0 THEN @ + 1 ELSE @,
                                  !.paused_offers =
                                      IF mod.pause = 0 /\ n # 0 THEN 0 ELSE @]
    /\ UNCHANGED <<sync, input, disk, thr, evl>>

\* the arguments position() is called with
Positions == 0 .. 4 \cup {429, 430, 7199}

\* A Lua number given to position(): nil, or hi * 2^32 + lo milliseconds.
LuaNil == [nil |-> TRUE, hi |-> 0, lo |-> 0]

LuaNum(hi, lo) == [nil |-> FALSE, hi |-> hi, lo |-> lo]

\* the arguments the script passes: nil, small values, and 2^32 + 1
PosArgs == {LuaNil} \cup {LuaNum(0, p) : p \in Positions} \cup {LuaNum(1, 1)}

\* ms >= n for a Lua number ms and a uint32 n
LuaGE(ms, n) == ms.hi > 0 \/ ms.lo >= n

\* line 519, uint32_t pos = lua_tonumber(lua, -1): a double above UINT32_MAX
\* converted to uint32_t is undefined; builds either keep the low 32 bits
\* or saturate (Huge32 stands for UINT32_MAX)
lua_tonumber_u32(ms) == IF ms.hi = 0 THEN {ms.lo} ELSE {ms.lo, Huge32}

\* lines 513-526: nothing happens for nil, for pos >= length, for a TS file
PosCall ==
    /\ evl.pc = "idle"
    /\ \E ms \in PosArgs : \E pos \in lua_tonumber_u32(ms) :
          IF ms.nil \/ pos >= mod.length \/ mod.ts_size # M2TS_PACKET_SIZE
          THEN /\ evl' = [evl EXCEPT !.ret = 0]
               /\ UNCHANGED <<mod, hist>>
          ELSE /\ hist.seeks < disk.seeks
               /\ mod' = [mod EXCEPT !.reposition = TRUE]
               /\ evl' = [evl EXCEPT !.pc = "pos_skip", !.pos = pos,
                                     !.ms = ms]
               /\ hist' = [hist EXCEPT !.ctl = TRUE, !.seeks = @ + 1,
                                       !.reopen_at = NULL,
                                       !.pos_arg = ms.lo]
    /\ UNCHANGED <<sync, input, disk, thr>>

\* The product of two uint32_t, modulo 2^32, as its two 16-bit halves
\* (the checker's integers end at 2^31 - 1, so the product is made of
\* partial products that stay below that).
Mul32(a, b) ==
    LET al == a % 65536
        ah == a \div 65536
        bl == b % 65536
        bh == b \div 65536
        \* al * bl = t1 * 256 + t0
        t1 == (al \div 256) * bl
        t0 == (al % 256) * bl
        low == (t1 % 256) * 256 + t0
        carry == t1 \div 256 + low \div 65536
        \* (ah * bl + al * bh) modulo 2^16
        x1 == ((ah % 256) * bl + (((ah \div 256) * bl) % 256) * 256) % 65536
        x2 == ((bh % 256) * al + (((bh \div 256) * al) % 256) * 256) % 65536
    IN  [hi |-> (carry + x1 + x2) % 65536, lo |-> low % 65536]

\* x / n for a uint32_t x given as its halves and 0 < n < 2^15
Div32(x, n) == (x.hi \div n) * 65536 + ((x.hi % n) * 65536 + x.lo) \div n

\* the product taken in unbounded integers, then divided: pos * c / n for
\* pos < n < 2^15
MulDivExact(pos, c, n) == pos * (c \div n) + (pos * (c % n)) \div n

\* lines 527-529: ts_count, pos * ts_count and ts_skip are uint32_t
PosFileSkip(pos) ==
    LET ts_count == mod.file_size \div M2TS_PACKET_SIZE
        ts_skip == Div32(Mul32(pos, ts_count), mod.length)
    IN  ts_skip * M2TS_PACKET_SIZE

\* lines 527-534
PosSkip ==
    /\ evl.pc = "pos_skip"
    /\ IF mod.length = 0 \/ input.ptr = NULL
       THEN Crash /\ UNCHANGED <<input, hist>>
       ELSE /\ input' = [input EXCEPT !.skip = PosFileSkip(evl.pos)]
            /\ evl' = [evl EXCEPT !.pc = "idle", !.pos = 0, !.ret = 1,
                                  !.ms = LuaNil]
            /\ hist' = [hist EXCEPT !.request =
                            IF hist.reopen_at = PosFileSkip(evl.pos)
                            THEN NULL ELSE PosFileSkip(evl.pos)]
            /\ UNCHANGED thr
    /\ UNCHANGED <<sync, mod, disk>>

method_position == PosCall \/ PosSkip

\* asc_thread_destroy, before its join: the stop flag is raised
asc_thread_destroy == [sync EXCEPT !.exit = TRUE]

\* lines 598-601: asc_thread_destroy raises the stop flag and joins
DestroyCall ==
    /\ evl.pc = "idle"
    /\ sync' = asc_thread_destroy
    /\ evl' = [evl EXCEPT !.pc = "joining"]
    /\ UNCHANGED <<mod, input, disk, thr, hist>>

\* lines 601-622: the join returns when the thread function has returned
DestroyJoin ==
    /\ evl.pc = "joining"
    /\ thr.pc \in {"exited", "not_started"}
    /\ evl' = [evl EXCEPT !.pc = "destroyed"]
    /\ UNCHANGED <<sync, mod, input, disk, thr, hist>>

module_destroy == DestroyCall \/ DestroyJoin

(* ------------------------------- the runs ------------------------------ *)

\* 100 ms of 27 MHz ticks between the PCRs of consecutive cells
CellTicks == 100 * 27000

\* a file of n cells of size cs; the cells of pcrs carry a PCR, those of
\* bad have no sync byte, those of back carry a PCR that is 0
MkFile(cs, n, pcrs, bad, back) ==
    [exists |-> TRUE, cs |-> cs,
     cells |-> [i \in 1..n |->
                  Cell(i \notin bad, i \in pcrs,
                       IF i \in back THEN 0 ELSE i * CellTicks,
                       IF cs = M2TS_PACKET_SIZE THEN i * 1000 ELSE 0)]]

NoFile == [exists |-> FALSE, cs |-> TS_PACKET_SIZE, cells |-> <<>>]

\* number of cells of the files played
FileCells == 7

\* a TS file whose first PCR is in its second packet
FileTs == MkFile(TS_PACKET_SIZE, FileCells, {2, 4, 5, 7}, {}, {})

\* a TS file whose first packet carries a PCR
FileTsPcr0 == MkFile(TS_PACKET_SIZE, FileCells, {1, 3, 4, 6}, {}, {})

\* a TS file whose second packet has no sync byte
FileTsBad == MkFile(TS_PACKET_SIZE, FileCells, {2, 4, 5, 7}, {2}, {})

\* a TS file with no PCR in its first window
FileTsNoPcr == MkFile(TS_PACKET_SIZE, FileCells, {6}, {}, {})

\* a TS file of two packets, shorter than the input window
FileTsSmall == MkFile(TS_PACKET_SIZE, 2, {2}, {}, {})

\* a TS file whose PCR falls back to 0 in its fourth packet
FileTsJump == MkFile(TS_PACKET_SIZE, FileCells, {2, 3, 4, 6}, {}, {4})

\* a TS file whose only PCR is in its second packet
FileTsSparse == MkFile(TS_PACKET_SIZE, FileCells, {2}, {}, {})

\* an M2TS file with no PCR in its first window
FileM2tsNoPcr == MkFile(M2TS_PACKET_SIZE, FileCells, {6}, {}, {})

FileM2ts == MkFile(M2TS_PACKET_SIZE, FileCells, {2, 4, 5, 7}, {}, {})

\* an M2TS file whose third packet has no sync byte
FileM2tsBad == MkFile(M2TS_PACKET_SIZE, FileCells, {2, 4, 5, 7}, {3}, {})

Config(f, loop, cb, back, seeks, pauses) ==
    [file |-> f, loop |-> loop, cb |-> cb, back |-> back, seeks |-> seeks,
     pauses |-> pauses, check_length |-> FALSE]

\* the same run with the option check_length = true
CheckLength(c) == [c EXCEPT !.check_length = TRUE]

\* the runs: the options of module_init and the machine they run on
Configs ==
    { Config(FileTs, FALSE, 1, TRUE, 0, 2),
      Config(FileTsPcr0, TRUE, 1, TRUE, 0, 1),
      Config(FileM2ts, FALSE, 0, FALSE, 1, 0),
      Config(FileM2tsBad, FALSE, 0, FALSE, 1, 0),
      Config(FileTsBad, FALSE, 1, FALSE, 0, 1),
      Config(FileTsNoPcr, FALSE, 1, FALSE, 0, 1),
      Config(NoFile, FALSE, 1, FALSE, 0, 1),
      Config(FileTsSmall, FALSE, 1, FALSE, 0, 0),
      Config(FileTsSparse, FALSE, 1, FALSE, 0, 0),
      Config(FileTsJump, FALSE, 1, FALSE, 0, 0),
      Config(FileM2tsNoPcr, FALSE, 1, FALSE, 0, 0),
      CheckLength(Config(FileM2ts, FALSE, 0, FALSE, 0, 0)),
      CheckLength(Config(NoFile, FALSE, 0, FALSE, 0, 0)) }

SyncInit ==
    [buffer |-> [i \in 0 .. SyncSlots - 1 |-> Payload(Uninit)],
     buffer_count |-> 0, buffer_read |-> 0, buffer_write |-> 0,
     buffer_overflow |-> 0, chan |-> <<>>, exit |-> FALSE]

HistInit ==
    [offered |-> <<>>, accepted |-> <<>>, popped |-> <<>>, down |-> <<>>,
     reports |-> <<>>, dropped |-> 0, sentinels |-> 0, eof_calls |-> 0,
     wakes |-> <<>>, request |-> NULL, first_read |-> NULL, start |-> NULL,
     after_eof |-> NULL, ctl |-> FALSE, seeks |-> 0, lock_written |-> NULL,
     lock_read |-> NULL, reopen_at |-> NULL, paused_offers |-> 0, pauses |-> 0,
     sync_back |-> FALSE, pos_arg |-> 0]

\* the producer thread before its first step: position and locals
ThrInit(pc0) ==
    [pc |-> pc0, ts |-> 0, after |-> "", open_after |-> "start_ret",
     open_ret |-> 0, block_end |-> 0, skip_rd |-> 0, len |-> 0,
     acc |-> ResetAcc, pause_block |-> 0, resumed |-> FALSE]

\* module_init, lines 552-595, up to the start of the thread
InitWith(c, pc0) ==
    /\ sync = SyncInit
    /\ mod = [fd |-> 0, file_size |-> 0, ts_size |-> 0, start_time |-> 0,
              length |-> 0, pause |-> 0, reposition |-> FALSE,
              pcr |-> 0, idx_callback |-> c.cb, loop |-> c.loop]
    /\ input = IF c.check_length
               THEN [buffer |-> <<>>, ptr |-> NULL, skip |-> 0, size |-> 0]
               ELSE [buffer |-> [k \in 1 .. WinEntries(c.file) |-> Uninit],
                     ptr |-> 0, skip |-> 0, size |-> InputSize]
    /\ disk = [file |-> c.file, lock |-> <<>>, steps_back |-> c.back,
               seeks |-> c.seeks, pauses |-> c.pauses]
    /\ thr = [ThrInit(pc0) EXCEPT !.open_after =
                  IF c.check_length THEN "check_ret" ELSE @]
    /\ evl = [pc |-> "idle", cmd |-> 0, ts |-> Payload(Uninit), pos |-> 0,
              ret |-> 0, ms |-> LuaNil]
    /\ hist = HistInit

Init == \E c \in Configs : InitWith(c, "open_fd")

\* lines 546-549: module_init returns after open_file when check_length is
\* true; close() leaves mod.fd as it is, no thread is started
CheckLengthRet ==
    /\ thr.pc = "check_ret"
    /\ thr' = [thr EXCEPT !.pc = "not_started"]
    /\ UNCHANGED <<sync, mod, input, disk, evl, hist>>

Next ==
    \/ CheckLengthRet
    \/ thread_loop
    \/ on_thread_read
    \/ method_pause
    \/ method_position
    \/ module_destroy

Spec == Init /\ [][Next]_vars

(* --------------------- the ring under any caller ----------------------- *)

\* line 419: the producer calls sync_queue_push with the next packet
RingOffer ==
    /\ thr.pc = "ring_idle"
    /\ Len(hist.offered) < MaxOffers
    /\ sync_queue_push(Len(hist.offered) + 1, "ring_idle")
    /\ UNCHANGED <<evl, filevars>>

\* lines 353-354: the producer calls sync_queue_push(mod, NULL) and ends
RingExit ==
    /\ thr.pc = "ring_idle"
    /\ sync_queue_push(NULL, "exited")
    /\ UNCHANGED <<evl, filevars>>

InitRing ==
    \E cb \in {0, 1} :
        InitWith(Config(FileTs, FALSE, cb, FALSE, 0, 0), "ring_idle")

NextRing ==
    \/ RingOffer
    \/ RingExit
    \/ PushCopy \/ PushCopy2 \/ PushAdd \/ PushSend
    \/ on_thread_read

SpecRing == InitRing /\ [][NextRing]_vars

(* ---------------------------- the lock file --------------------------- *)

\* a byte that is no decimal digit
NonDigit == 10

\* sprintf("%lu"): the decimal digits of n, most significant first
RECURSIVE LuDigits(_)
LuDigits(n) == IF n < 10 THEN <<n>> ELSE Append(LuDigits(n \div 10), n % 10)

\* strtoul(str, NULL, 10) on bytes that start with a digit or a non-digit:
\* the number the leading digits spell, 0 when there is none
RECURSIVE strtoul(_, _)
strtoul(str, acc) ==
    IF str = <<>> \/ Head(str) = NonDigit THEN acc
    ELSE strtoul(Tail(str), acc * 10 + Head(str))

\* lines 482-495: the lock file is truncated and gets the digits of
\* input.skip, with no terminator
timer_skip_set ==
    /\ thr.pc = "earlier_run"
    /\ disk' = [disk EXCEPT !.lock = LuDigits(input.skip)]
    /\ hist' = [hist EXCEPT !.lock_written = input.skip]
    /\ UNCHANGED <<sync, mod, input, thr, evl>>

\* what skip_str[64], which line 570 does not initialise, holds behind the
\* bytes read(): digits or not, up to the first byte that is no digit
StackBytes == { <<NonDigit>>, <<0, NonDigit>>, <<7, NonDigit>> }

\* lines 565-577 and 595 in a new process; a lock of <<>> is a lock file
\* that cannot be read: input.skip is 0 from the
\* allocation of the module; the lock file is read into skip_str and parsed
\* where read() returned more than 0; the producer thread is started
module_init ==
    /\ thr.pc = "earlier_run"
    /\ \E tail \in StackBytes :
          LET l == IF disk.lock = <<>> THEN -1 ELSE Len(disk.lock)
          IN  /\ input' = [input EXCEPT !.ptr = 0, !.skip =
                              IF l > 0 THEN strtoul(disk.lock \o tail, 0)
                              ELSE 0]
              /\ hist' = [hist EXCEPT !.lock_read =
                              IF l > 0 THEN strtoul(disk.lock \o tail, 0)
                              ELSE NULL]
    /\ thr' = [thr EXCEPT !.pc = "open_fd"]
    /\ UNCHANGED <<sync, mod, disk, evl>>

\* values of input.skip in the earlier run
EarlierSkips == { 0, 188, 376, 564, 940, 1316, 1344, 1504 }

InitLock ==
    \E f \in {FileTs, FileTsPcr0, FileM2ts}, k \in EarlierSkips :
        /\ sync = SyncInit
        /\ mod = [fd |-> 0, file_size |-> 0, ts_size |-> 0, start_time |-> 0,
                  length |-> 0, pause |-> 0, reposition |-> FALSE,
                  pcr |-> 0, idx_callback |-> 0, loop |-> FALSE]
        /\ input = [buffer |-> [j \in 1 .. WinEntries(f) |-> Uninit],
                    ptr |-> 0, skip |-> k, size |-> InputSize]
        /\ disk = [file |-> f, lock |-> <<>>, steps_back |-> FALSE,
                   seeks |-> 0, pauses |-> 0]
        /\ thr = ThrInit("earlier_run")
        /\ evl = [pc |-> "idle", cmd |-> 0, ts |-> Payload(Uninit),
                  pos |-> 0, ret |-> 0, ms |-> LuaNil]
        /\ hist = HistInit

NextLock ==
    \/ timer_skip_set
    \/ module_init
    \/ OpenFd
    \/ OpenPread

SpecLock == InitLock /\ [][NextLock]_vars

(* ------------------------- calc_pcr on its bytes ------------------------ *)

\* the values drawn for the header bytes ts[6] .. ts[11]
HdrBytes(i) ==
    CASE i = 6 -> {0, 1, 63, 64, 127, 128, 192, 255}
      [] i = 10 -> {0, 1, 128, 255}
      [] OTHER -> {0, 255}

\* A 64-bit number is written hi * 2^31 + rest with 0 <= rest < 2^31; as a
\* uint64_t a negative hi is the value plus 2^64.
\* The low 31 bits of pcr_base: bits 0-5 of ts[6], ts[7], ts[8], ts[9] and
\* bit 7 of ts[10].
PcrBaseRest(ts) ==
    (ts[6] % 64) * 33554432 + ts[7] * 131072 + ts[8] * 512 + ts[9] * 2
        + ts[10] \div 128

\* lines 108-112. The bytes are promoted to int, so ts[6] << 25 is a 32-bit
\* shift: bit 7 of ts[6] is shifted out and bit 6 lands in the sign bit,
\* which is undefined for ts[6] >= 64. The int is then converted to
\* uint64_t: builds sign-extend it (hi = -1), or treat bit 31 as a value
\* bit (hi = 1).
calc_pcr_base(ts) ==
    LET bit6 == (ts[6] \div 64) % 2
    IN  IF ts[6] < 64
        THEN {[hi |-> 0, rest |-> PcrBaseRest(ts)]}
        ELSE {[hi |-> -bit6, rest |-> PcrBaseRest(ts)],
              [hi |-> bit6, rest |-> PcrBaseRest(ts)]}

\* line 113
calc_pcr_ext(ts) == (ts[10] % 2) * 256 + ts[11]

\* line 114: the record stands for base * 300 + ext
CalcPcr ==
    /\ thr.pc = "calc_pcr"
    /\ \E b \in calc_pcr_base(input.buffer) :
          mod' = [mod EXCEPT !.pcr =
                     [base |-> b, ext |-> calc_pcr_ext(input.buffer)]]
    /\ thr' = [thr EXCEPT !.pc = "calc_done"]
    /\ UNCHANGED <<sync, input, disk, evl, hist>>

\* calc_pcr called on a header of any of the bytes drawn
InitPcr ==
    \E ts \in [6 .. 11 -> UNION {HdrBytes(i) : i \in 6 .. 11}] :
        /\ \A i \in 6 .. 11 : ts[i] \in HdrBytes(i)
        /\ sync = SyncInit
        /\ mod = [fd |-> 0, file_size |-> 0, ts_size |-> TS_PACKET_SIZE,
                  start_time |-> 0, length |-> 0, pause |-> 0,
                  reposition |-> FALSE, pcr |-> 0, idx_callback |-> 0,
                  loop |-> FALSE]
        /\ input = [buffer |-> ts, ptr |-> 0, skip |-> 0, size |-> 0]
        /\ disk = [file |-> NoFile, lock |-> <<>>, steps_back |-> FALSE,
                   seeks |-> 0, pauses |-> 0]
        /\ thr = ThrInit("calc_pcr")
        /\ evl = [pc |-> "idle", cmd |-> 0, ts |-> Payload(Uninit),
                  pos |-> 0, ret |-> 0, ms |-> LuaNil]
        /\ hist = HistInit

NextPcr == CalcPcr

SpecPcr == InitPcr /\ [][NextPcr]_vars

(* ---------------------- position() on large files ---------------------- *)

\* numbers of cells of the M2TS files position() is called on
PosCells == {7, 1000000, 10000000}

\* their lengths in seconds
PosLengths == {5, 3600, 7200}

\* an M2TS file that is open and being played: method_position called once
InitPos ==
    \E n \in PosCells, len \in PosLengths :
        /\ sync = SyncInit
        /\ mod = [fd |-> 1, file_size |-> n * M2TS_PACKET_SIZE,
                  ts_size |-> M2TS_PACKET_SIZE, start_time |-> 0,
                  length |-> len, pause |-> 0, reposition |-> FALSE,
                  pcr |-> 0, idx_callback |-> 0, loop |-> FALSE]
        /\ input = [buffer |-> [j \in 1 .. WinEntries(FileM2ts) |-> Uninit],
                    ptr |-> 0, skip |-> 0, size |-> InputSize]
        /\ disk = [file |-> FileM2ts, lock |-> <<>>, steps_back |-> FALSE,
                   seeks |-> 1, pauses |-> 0]
        /\ thr = [ThrInit("pause_wait") EXCEPT !.open_ret = 1]
        /\ evl = [pc |-> "idle", cmd |-> 0, ts |-> Payload(Uninit),
                  pos |-> 0, ret |-> 0, ms |-> LuaNil]
        /\ hist = HistInit

NextPos == PosCall \/ PosSkip

SpecPos == InitPos /\ [][NextPos]_vars

(* ------------------------------ http_server ---------------------------- *)

\* The HTTP server module has a module_data_t of its own. In its
\* specification mod holds sock (0 for NULL), idx_self, the lists routes and
\* clients, and client, the http_client_t objects by their address; evl
\* holds the position of the main loop and stack, the calls in progress on
\* it, innermost last; hist counts the calls of asc_socket_close.

\* number of connections accepted in a run
MaxClients == 3

\* number of entries of the option route
MaxRoutes == 2

\* a list pointer that is NULL
ListNull == [live |-> FALSE, items |-> <<>>]

\* asc_list_init(): a new empty list
asc_list_init == [live |-> TRUE, items |-> <<>>]

\* asc_list_insert_tail(list, x)
asc_list_insert_tail(l, x) == [l EXCEPT !.items = Append(@, x)]

\* asc_list_remove_item(list, x)
asc_list_remove_item(l, x) ==
    [l EXCEPT !.items = SelectSeq(@, LAMBDA y : y # x)]

\* memory of an http_client_t that is not allocated
NoClient == [state |-> "none", sock |-> 0, status |-> 0]

\* a call in progress: the function, where it stands, its client, the
\* prev_client of on_server_close, and what its caller does when it returns
Frame(fn, pc, c, then) ==
    [fn |-> fn, pc |-> pc, client |-> c, prev |-> 0, then |-> then]

Top == evl.stack[Len(evl.stack)]

Running == evl.pc = "run" /\ evl.stack # <<>>

\* the main loop is between two events
Idle == evl.pc = "run" /\ evl.stack = <<>>

\* a call made from the innermost call in progress
Call(f) == [evl EXCEPT !.stack = Append(@, f)]

\* the innermost call returns; astra_abort() follows the calls of lines
\* 758 and 869, and nothing follows module_destroy
Return ==
    [evl EXCEPT !.stack = SubSeq(@, 1, Len(@) - 1),
                !.pc = IF Top.then = "return" THEN @ ELSE Top.then]

\* the innermost call moves to pc
Goto(pc) == [evl EXCEPT !.stack[Len(evl.stack)].pc = pc]

\* the variables of the file input, which the server does not have
SrvFrame == UNCHANGED <<sync, input, disk, thr>>

\* lines 752-765: a connection is accepted
AcceptOk ==
    /\ Idle
    /\ mod.sock # 0
    /\ hist.accepted < MaxClients
    /\ LET c == hist.accepted + 1
       IN  /\ mod' = [mod EXCEPT
                        !.client[c] = [state |-> "live", sock |-> 1,
                                       status |-> 0],
                        !.clients = asc_list_insert_tail(@, c)]
           /\ hist' = [hist EXCEPT !.accepted = c]
    /\ UNCHANGED evl
    /\ SrvFrame

\* lines 755-760: asc_socket_accept fails
AcceptFail ==
    /\ Idle
    /\ mod.sock # 0
    /\ evl' = Call(Frame("on_server_close", "enter", 0, "aborted"))
    /\ UNCHANGED <<mod, hist>>
    /\ SrvFrame

on_server_accept == AcceptOk \/ AcceptFail

\* lines 298-311, and the close event of the socket (line 765): the peer
\* has gone
ClientEof ==
    /\ Idle
    /\ \E c \in 1 .. MaxClients :
          /\ mod.client[c].state = "live"
          /\ mod.client[c].sock # 0
          /\ evl' = Call(Frame("on_client_close", "enter", c, "return"))
    /\ UNCHANGED <<mod, hist>>
    /\ SrvFrame

\* lines 313-317 and 468-473: a request is complete and is given to the
\* script
ClientRequest ==
    /\ Idle
    /\ \E c \in 1 .. MaxClients :
          /\ mod.client[c].state = "live"
          /\ mod.client[c].sock # 0
          /\ mod.client[c].status # 3
          /\ mod' = [mod EXCEPT !.client[c].status = 3]
          /\ evl' = Call(Frame("callback", "lua", c, "return"))
    /\ UNCHANGED hist
    /\ SrvFrame

on_client_read == ClientEof \/ ClientRequest

\* the script is running: in a callback of the server, or called by the
\* main loop
InScript == Idle \/ (Running /\ Top.fn = "callback")

\* lines 790-793: close() of the script
MethodCloseServer ==
    /\ InScript
    /\ evl' = Call(Frame("on_server_close", "enter", 0, "return"))
    /\ UNCHANGED <<mod, hist>>
    /\ SrvFrame

\* lines 795-801: close(client) of the script, on a client it has been
\* given and that has not been freed
MethodCloseClient ==
    /\ InScript
    /\ \E c \in 1 .. MaxClients :
          /\ mod.client[c].state = "live"
          /\ evl' = Call(Frame("on_client_close", "enter", c, "return"))
    /\ UNCHANGED <<mod, hist>>
    /\ SrvFrame

method_close == MethodCloseServer \/ MethodCloseClient

\* lines 125-133: lua_call returns
CallbackRet ==
    /\ Running
    /\ Top.fn = "callback"
    /\ evl' = Return
    /\ UNCHANGED <<mod, hist>>
    /\ SrvFrame

\* lines 138-151
ClientCloseEnter ==
    /\ Running
    /\ Top.fn = "on_client_close"
    /\ Top.pc = "enter"
    /\ LET c == Top.client
       IN  IF mod.client[c].sock = 0
           THEN /\ evl' = Return
                /\ UNCHANGED <<mod, hist>>
           ELSE /\ hist' = [hist EXCEPT !.closes[c] = @ + 1]
                /\ IF mod.client[c].status = 3
                   THEN /\ mod' = [mod EXCEPT !.client[c].sock = 0,
                                              !.client[c].status = 0]
                        /\ evl' = [evl EXCEPT
                                     !.stack = Append(
                                        [@ EXCEPT ![Len(@)].pc = "finish"],
                                        Frame("callback", "lua", c, "return"))]
                   ELSE /\ mod' = [mod EXCEPT !.client[c].sock = 0]
                        /\ evl' = Goto("finish")
    /\ SrvFrame

\* lines 153-178; asc_list_remove_item on a NULL list is a fault
ClientCloseFinish ==
    /\ Running
    /\ Top.fn = "on_client_close"
    /\ Top.pc = "finish"
    /\ LET c == Top.client
       IN  IF ~mod.clients.live
           THEN /\ evl' = [evl EXCEPT !.pc = "crashed"]
                /\ UNCHANGED mod
           ELSE /\ mod' = [mod EXCEPT
                            !.clients = asc_list_remove_item(@, c),
                            !.client[c].state = "freed"]
                /\ evl' = Return
    /\ UNCHANGED hist
    /\ SrvFrame

on_client_close == ClientCloseEnter \/ ClientCloseFinish

\* lines 698-704
ServerCloseEnter ==
    /\ Running
    /\ Top.fn = "on_server_close"
    /\ Top.pc = "enter"
    /\ IF mod.sock = 0
       THEN /\ evl' = Return
            /\ UNCHANGED <<mod, hist>>
       ELSE /\ mod' = [mod EXCEPT !.sock = 0]
            /\ hist' = [hist EXCEPT !.server_closes = @ + 1]
            /\ evl' = Goto("loop")
    /\ SrvFrame

\* lines 724-745: the routes are released one by one, then idx_self
ServerCloseTail(m) ==
    [m EXCEPT !.routes = ListNull, !.idx_self = 0]

\* lines 706-745: one turn of the loop over the clients, or its end and
\* the rest of the function
ServerCloseLoop ==
    /\ Running
    /\ Top.fn = "on_server_close"
    /\ Top.pc = "loop"
    /\ IF ~mod.clients.live
       THEN /\ mod' = ServerCloseTail(mod)
            /\ evl' = Return
            /\ hist' = [hist EXCEPT !.done = TRUE]
       ELSE IF mod.clients.items = <<>>
       THEN /\ mod' = ServerCloseTail([mod EXCEPT !.clients = ListNull])
            /\ evl' = Return
            /\ hist' = [hist EXCEPT !.done = TRUE]
       ELSE LET client == Head(mod.clients.items)
            IN  /\ IF client = Top.prev
                   THEN evl' = [evl EXCEPT !.pc = "assert_failed"]
                   ELSE evl' = [evl EXCEPT
                                  !.stack = Append(
                                     [@ EXCEPT ![Len(@)].prev = client],
                                     Frame("on_client_close", "enter",
                                           client, "return"))]
                /\ UNCHANGED <<mod, hist>>
    /\ SrvFrame

on_server_close == ServerCloseEnter \/ ServerCloseLoop

\* lines 875-881 of the HTTP server
ServerDestroy ==
    /\ Idle
    /\ IF mod.idx_self = 0
       THEN evl' = [evl EXCEPT !.pc = "destroyed"]
       ELSE evl' = Call(Frame("on_server_close", "enter", 0, "destroyed"))
    /\ UNCHANGED <<mod, hist>>
    /\ SrvFrame

\* lines 810-873: the server listens, with the routes of the option
InitSrv ==
    \E r \in 0 .. MaxRoutes :
        /\ sync = SyncInit
        /\ mod = [sock |-> 1, idx_self |-> 1,
                  routes |-> [live |-> TRUE, items |-> [i \in 1 .. r |-> i]],
                  clients |-> asc_list_init,
                  client |-> [c \in 1 .. MaxClients |-> NoClient]]
        /\ input = [buffer |-> <<>>, ptr |-> 0, skip |-> 0, size |-> 0]
        /\ disk = [file |-> NoFile, lock |-> <<>>, steps_back |-> FALSE,
                   seeks |-> 0, pauses |-> 0]
        /\ thr = ThrInit("not_started")
        /\ evl = [pc |-> "run", stack |-> <<>>]
        /\ hist = [closes |-> [c \in 1 .. MaxClients |-> 0], accepted |-> 0,
                   server_closes |-> 0, done |-> FALSE]

NextSrv ==
    \/ on_server_accept
    \/ on_client_read
    \/ method_close
    \/ CallbackRet
    \/ on_client_close
    \/ on_server_close
    \/ ServerDestroy

SpecSrv == InitSrv /\ [][NextSrv]_vars

(* ----------------------- http_server: on_client_read ------------------- *)

\* One client of the HTTP server and the request its peer sends. mod holds
\* the http_client_t in its field client, input the request and wire, the
\* bytes of it that the socket has not delivered yet, hist the calls of the
\* route callback.

\* bytes of request line and header lines before the final CR LF CR LF
MaxHdr == 2

\* bytes of the request body
MaxBody == 3

\* the empty line that ends the headers
Terminator == <<13, 10, 13, 10>>

\* the header block of l bytes of text: the text holds no CR
HdrBlock(l) == [i \in 1 .. l |-> 104] \o Terminator

\* the body of a request: n bytes, each of its own value
BodyBytes(n) == [i \in 1 .. n |-> i]

\* client->buffer[i]: the buffer is zeroed by calloc (line 752) and holds
\* the bytes received so far
ByteAt(buf, i) == IF i < Len(buf) THEN buf[i + 1] ELSE 0

\* n bytes of the buffer from offset from
BytesAt(buf, from, n) == [i \in 1 .. n |-> ByteAt(buf, from + i - 1)]

\* lines 326-329
EmptyLineAt(buf, skip) ==
    \A j \in 0 .. 3 : ByteAt(buf, skip + j) = Terminator[j + 1]

\* lines 324-337: the offsets below buffer_skip where the test succeeds
EmptyLines(buf, buffer_skip) ==
    {s \in 0 .. buffer_skip - 1 : EmptyLineAt(buf, s)}

\* the least element of a set of numbers that is not empty
Least(S) == CHOOSE s \in S : \A t \in S : s <= t

\* a - b in size_t: below zero it wraps to a value that no length reaches
SizeSub(a, b) == IF a >= b THEN a - b ELSE Huge32

\* line 494: tail = size - skip, size the bytes of this read
ContentTail(size, skip, buffer_skip) == SizeSub(size, skip)

\* lines 136-179 for the one client: the socket is closed and the script
\* is told when a request had been given to it
ReadClose(c) ==
    [c EXCEPT !.sock = 0, !.status = 0, !.has_content = FALSE,
              !.content = <<>>]

\* lines 125-133 with status 3: the route callback gets the request, whose
\* field content is set when has is TRUE
RouteCall(has, content) ==
    [hist EXCEPT !.calls = Append(@, [has |-> has, content |-> content,
                                      at |-> Len(input.request)
                                             - Len(input.wire')])]

\* lines 491-516: c is the client after the lines before
ReadContent(c, size, skip) ==
    IF ~c.is_content_length
    THEN mod' = [mod EXCEPT !.client = c] /\ UNCHANGED hist
    ELSE LET tail == ContentTail(size, skip, c.buffer_skip)
         IN  IF c.chunk_left > tail
             THEN /\ mod' = [mod EXCEPT !.client =
                               [c EXCEPT
                                  !.content = @ \o BytesAt(c.buffer, skip, tail),
                                  !.chunk_left = @ - tail]]
                  /\ UNCHANGED hist
             ELSE /\ mod' = [mod EXCEPT !.client =
                               [c EXCEPT !.content = <<>>,
                                         !.has_content = FALSE,
                                         !.chunk_left = 0,
                                         !.status = 3]]
                  /\ hist' = RouteCall(TRUE,
                                c.content
                                   \o BytesAt(c.buffer, skip, c.chunk_left))

\* lines 344-476: the request line and the headers are parsed, skip ends at
\* eoh; c is the client with the bytes of this read
ReadHeaders(c, size, eoh) ==
    LET has_cl == input.cl # NULL
        p == [c EXCEPT !.status = 2,
                       !.idx_callback = IF input.matched THEN 1 ELSE 0,
                       !.has_content = has_cl,
                       !.is_content_length = has_cl,
                       !.chunk_left = IF has_cl THEN input.cl ELSE @]
    IN  IF p.idx_callback = 0
        THEN /\ mod' = [mod EXCEPT !.client = ReadClose(p)]
             /\ hist' = [hist EXCEPT !.closes = @ + 1]
        ELSE IF ~p.has_content
        THEN /\ mod' = [mod EXCEPT !.client = [p EXCEPT !.status = 3]]
             /\ hist' = RouteCall(FALSE, <<>>)
        ELSE IF eoh >= p.buffer_skip
        THEN /\ mod' = [mod EXCEPT !.client = p]
             /\ UNCHANGED hist
        ELSE ReadContent(p, size, eoh)

\* lines 298-517 with size > 0: the socket gives the next size bytes
ClientRecv ==
    /\ evl.pc = "run"
    /\ mod.client.sock # 0
    /\ \E size \in 1 .. Len(input.wire) :
          /\ input' = [input EXCEPT !.wire = SubSeq(@, size + 1, Len(@))]
          /\ IF mod.client.status = 3
             THEN UNCHANGED <<mod, hist>>
             ELSE LET c == [mod.client EXCEPT
                              !.buffer = @ \o SubSeq(input.wire, 1, size),
                              !.buffer_skip = @ + size]
                      found == EmptyLines(c.buffer, c.buffer_skip)
                  IN  IF c.status = 0
                      THEN IF found = {}
                           THEN /\ mod' = [mod EXCEPT !.client = c]
                                /\ UNCHANGED hist
                           ELSE ReadHeaders(c, size, Least(found) + 4)
                      ELSE ReadContent(c, size, 0)
    /\ UNCHANGED <<sync, disk, thr, evl>>

\* lines 303-311: recv gives 0 or an error
ClientRecvEof ==
    /\ evl.pc = "run"
    /\ mod.client.sock # 0
    /\ mod' = [mod EXCEPT !.client = ReadClose(@)]
    /\ hist' = [hist EXCEPT !.closes = @ + 1]
    /\ UNCHANGED <<sync, input, disk, thr, evl>>

\* line 752 and 762-765: a client that has been accepted, and the request
\* the peer sends: its header text, whether its path has a route, its
\* Content-Length (NULL when it has none) and its body
InitRead ==
    \E l \in 1 .. MaxHdr, cl \in {NULL} \cup (0 .. MaxBody),
       matched \in BOOLEAN :
        LET body == IF cl = NULL THEN <<>> ELSE BodyBytes(cl)
            request == HdrBlock(l) \o body
        IN  /\ sync = SyncInit
            /\ mod = [sock |-> 1,
                      client |-> [sock |-> 1, status |-> 0, buffer |-> <<>>,
                                  buffer_skip |-> 0, chunk_left |-> 0,
                                  content |-> <<>>, has_content |-> FALSE,
                                  is_content_length |-> FALSE,
                                  idx_callback |-> 0]]
            /\ input = [request |-> request, body |-> body, cl |-> cl,
                        matched |-> matched, wire |-> request]
            /\ disk = [file |-> NoFile, lock |-> <<>>, steps_back |-> FALSE,
                       seeks |-> 0, pauses |-> 0]
            /\ thr = ThrInit("not_started")
            /\ evl = [pc |-> "run", stack |-> <<>>]
            /\ hist = [calls |-> <<>>, closes |-> 0]

NextRead == ClientRecv \/ ClientRecvEof

SpecRead == InitRead /\ [][NextRead]_vars

(* -------------------------- http_server: send -------------------------- *)

\* One client whose request has been given to the script, and the response
\* the script sends. input holds the response: header, the bytes snprintf
\* puts in client->buffer, and the content string; hist holds sent, the
\* bytes the socket has taken, and whether a send has failed.

\* line 51: 16 * 1024
HTTP_BUFFER_SIZE == 16384

\* bytes of the header block of a response, status line and final CR LF
\* included
MaxRespHdr == 3

\* bytes of the content string
MaxContent == 3

\* the header block of l bytes, each of its own value
RespHeader(l) == [i \in 1 .. l |-> 200 + i]

\* asc_socket_send(sock, &bytes[skip], n) that returns n: the bytes it
\* writes
SendChunk(bytes, skip, n) == SubSeq(bytes, skip + 1, skip + n)

\* the results of asc_socket_send for a request of n bytes: from 1 to n
\* bytes taken, or 0 (nothing taken, the only result for n = 0), or -1
SendSizes(n) == -1 .. n

\* lines 136-179 for the one client
SendClose(c) == [c EXCEPT !.sock = 0, !.idx_content = 0, !.on_ready = "none"]

\* lines 621-685: the header block is put in the buffer, the content is
\* kept in the registry
method_send ==
    /\ evl.pc = "run"
    /\ mod.client.sock # 0
    /\ mod.client.on_ready = "none"
    /\ ~hist.started
    /\ mod' = [mod EXCEPT !.client =
                 [@ EXCEPT !.buffer = input.header,
                           !.idx_content = IF input.has_content THEN 1 ELSE @,
                           !.buffer_skip = 0,
                           !.chunk_left = Len(input.header),
                           !.on_ready = "response"]]
    /\ hist' = [hist EXCEPT !.started = TRUE]
    /\ UNCHANGED <<sync, input, disk, thr, evl>>

\* lines 563-592
on_ready_send_response ==
    /\ evl.pc = "run"
    /\ mod.client.sock # 0
    /\ mod.client.on_ready = "response"
    /\ LET c == mod.client
           content_send == Min(c.chunk_left, HTTP_BUFFER_SIZE)
       IN  \E send_size \in SendSizes(content_send) :
              IF send_size <= 0
              THEN /\ mod' = [mod EXCEPT !.client = SendClose(c)]
                   /\ hist' = [hist EXCEPT !.failed = TRUE, !.closes = @ + 1]
              ELSE LET left == c.chunk_left - send_size
                       d == [c EXCEPT !.buffer_skip = @ + send_size,
                                      !.chunk_left = left]
                   IN  /\ mod' = [mod EXCEPT !.client =
                                    IF left # 0 THEN d
                                    ELSE IF c.idx_content # 0
                                    THEN [d EXCEPT !.on_ready = "content"]
                                    ELSE SendClose(d)]
                       /\ hist' = [hist EXCEPT
                                     !.sent = @ \o SendChunk(c.buffer,
                                                   c.buffer_skip, send_size),
                                     !.closes = IF left = 0 /\ c.idx_content = 0
                                                THEN @ + 1 ELSE @]
    /\ UNCHANGED <<sync, input, disk, thr, evl>>

\* lines 528-561
on_ready_send_content ==
    /\ evl.pc = "run"
    /\ mod.client.sock # 0
    /\ mod.client.on_ready = "content"
    /\ LET c == IF mod.client.chunk_left = 0
                THEN [mod.client EXCEPT !.buffer_skip = 0,
                                        !.chunk_left = Len(input.content)]
                ELSE mod.client
           content_send == Min(c.chunk_left, HTTP_BUFFER_SIZE)
       IN  \E send_size \in SendSizes(content_send) :
              IF send_size <= 0
              THEN /\ mod' = [mod EXCEPT !.client = SendClose(c)]
                   /\ hist' = [hist EXCEPT !.failed = TRUE, !.closes = @ + 1]
              ELSE LET left == c.chunk_left - send_size
                       d == [c EXCEPT !.buffer_skip = @ + send_size,
                                      !.chunk_left = left]
                   IN  /\ mod' = [mod EXCEPT !.client =
                                    IF left # 0 THEN d ELSE SendClose(d)]
                       /\ hist' = [hist EXCEPT
                                     !.sent = @ \o SendChunk(input.content,
                                                   c.buffer_skip, send_size),
                                     !.closes = IF left = 0 THEN @ + 1 ELSE @]
    /\ UNCHANGED <<sync, input, disk, thr, evl>>

\* lines 468-473 and 512-514: the script has the request of a client, and
\* the response it will send: a header block, and a content string or none
InitSend ==
    \E l \in 1 .. MaxRespHdr, has \in BOOLEAN, n \in 0 .. MaxContent :
        /\ has \/ n = 0
        /\ sync = SyncInit
        /\ mod = [sock |-> 1,
                  client |-> [sock |-> 1, status |-> 3, buffer |-> <<>>,
                              buffer_skip |-> 0, chunk_left |-> 0,
                              idx_content |-> 0, on_ready |-> "none"]]
        /\ input = [header |-> RespHeader(l), has_content |-> has,
                    content |-> BodyBytes(n)]
        /\ disk = [file |-> NoFile, lock |-> <<>>, steps_back |-> FALSE,
                   seeks |-> 0, pauses |-> 0]
        /\ thr = ThrInit("not_started")
        /\ evl = [pc |-> "run", stack |-> <<>>]
        /\ hist = [sent |-> <<>>, failed |-> FALSE, closes |-> 0,
                   started |-> FALSE]

NextSend == method_send \/ on_ready_send_response \/ on_ready_send_content

SpecSend == InitSend /\ [][NextSend]_vars

(* ------------------------------ the claims ----------------------------- *)

\* a push that passed the overflow test and has not done its atomic add
PushInFlight == thr.pc \in {"push_copy", "push_copy2", "push_add"}

\* C1: accepted pushes minus pops lies in [0, capacity/188], and
\* buffer_count is that difference times 188, a push counted at its atomic
\* add and a pop at its atomic sub.
C1_Balance ==
    LET d == Len(hist.accepted) - Len(hist.popped)
    IN  /\ d >= 0
        /\ d <= SYNC_BUFFER_SIZE \div TS_PACKET_SIZE
        /\ sync.buffer_count = d * TS_PACKET_SIZE

\* the ring was full after a pop had freed a slot
C1_Witness ==
    /\ Len(hist.popped) >= 1
    /\ Len(hist.accepted) - Len(hist.popped) = SyncSlots
    /\ sync.buffer_count = SYNC_BUFFER_SIZE

\* C2: the payloads copied out by sync_queue_pop are, in order and
\* unaltered, the first payloads accepted by sync_queue_push, which are the
\* offered ones without the dropped ones.
C2_Fifo ==
    /\ Len(hist.popped) <= Len(hist.accepted)
    /\ \A i \in 1 .. Len(hist.popped) :
          hist.popped[i] = Payload(hist.accepted[i])
    /\ \A i \in 1 .. Len(hist.accepted) :
          /\ hist.accepted[i] \in 1 .. Len(hist.offered)
          /\ hist.offered[hist.accepted[i]] = hist.accepted[i]
          /\ i > 1 => hist.accepted[i - 1] < hist.accepted[i]

\* more payloads than slots went through the ring, around a dropped one
C2_Witness ==
    /\ Len(hist.popped) > SyncSlots
    /\ hist.dropped >= 1
    /\ Last(hist.popped) = Payload(Len(hist.offered))

IsPacketWake(b) == b = CMD_PACKET

\* the slot the j-th accepted payload was copied to
SlotOfAccepted(j) == (j - 1) % SyncSlots

\* C3: a 0x00 byte is sent only after its payload is complete in the ring
\* and added to buffer_count; buffer_count is decremented only after the
\* payload is copied out; the consumer never reads a slot that is empty or
\* being written, the producer never writes a slot whose payload is not
\* yet copied out.
C3_Handshake ==
    /\ Len(SelectSeq(hist.wakes, IsPacketWake)) <= Len(hist.accepted)
    /\ \A j \in Len(hist.popped) + 1 .. Len(hist.accepted) :
          sync.buffer[SlotOfAccepted(j)] = Payload(hist.accepted[j])
    /\ evl.pc \in {"pop_copy", "pop_copy2"} =>
          /\ Len(hist.popped) < Len(hist.accepted)
          /\ Slot(sync.buffer_read) = SlotOfAccepted(Len(hist.popped) + 1)
          /\ ~(/\ thr.pc \in {"push_copy", "push_copy2"}
               /\ Slot(sync.buffer_write) = Slot(sync.buffer_read))
    /\ evl.pc = "pop_sub" =>
          evl.ts = Payload(hist.accepted[Len(hist.popped) + 1])
    /\ thr.pc \in {"push_copy", "push_copy2"} =>
          /\ Len(hist.accepted) - Len(hist.popped) < SyncSlots
          /\ Slot(sync.buffer_write) = SlotOfAccepted(Len(hist.accepted) + 1)

\* both sides are in the middle of a copy after the ring has wrapped
C3_Witness ==
    /\ thr.pc = "push_copy2"
    /\ evl.pc = "pop_copy2"
    /\ Len(hist.accepted) >= SyncSlots
    /\ Slot(sync.buffer_write) # Slot(sync.buffer_read)

RECURSIVE SumSeq(_)
SumSeq(s) == IF s = <<>> THEN 0 ELSE Head(s) + SumSeq(Tail(s))

\* no wakeup byte is in flight and neither side is inside a push or a pop
Drained ==
    /\ sync.chan = <<>>
    /\ ~PushInFlight
    /\ thr.pc # "push_send"
    /\ evl.pc \in {"idle", "stream_send"}

C10_Inv ==
    /\ Len(hist.offered) = Len(hist.accepted) + (IF PushInFlight THEN 1 ELSE 0)
                           + SumSeq(hist.reports) + sync.buffer_overflow
    /\ hist.dropped = SumSeq(hist.reports) + sync.buffer_overflow
    /\ \A i \in 1 .. Len(hist.reports) : hist.reports[i] >= 1
    /\ PushInFlight => sync.buffer_overflow = 0
    /\ Drained => sync.buffer_count = 0

C10_Step ==
    Len(hist.offered') > Len(hist.offered) =>
        IF PushFull
        THEN /\ sync' = [sync EXCEPT !.buffer_overflow = @ + 1]
             /\ hist.reports' = hist.reports
             /\ ~PushInFlight'
        ELSE /\ sync.buffer_overflow' = 0
             /\ hist.reports' = IF sync.buffer_overflow > 0
                                THEN Append(hist.reports, sync.buffer_overflow)
                                ELSE hist.reports
             /\ PushInFlight'

\* C10: a push on a full ring changes nothing but buffer_overflow, which
\* grows by one; the next accepted push issues one report with the number
\* of drops since the last report and clears buffer_overflow; offered =
\* accepted + reported + buffer_overflow at all times; buffer_count is 0
\* once every wakeup byte is drained.
C10_Overflow == []C10_Inv /\ [][C10_Step]_vars

\* drops were reported and the ring was drained afterwards
C10_Witness ==
    /\ Len(hist.reports) >= 1
    /\ hist.dropped >= 1
    /\ Drained
    /\ sync.buffer_count = 0
    /\ Len(hist.popped) = Len(hist.accepted)

\* the payload of file cell c is one the producer pushed and starts 0x47
PushedWithSync(ts) ==
    \E j \in 1 .. Len(hist.accepted) :
        /\ hist.accepted[j] # Uninit
        /\ ts = Payload(hist.accepted[j])
        /\ disk.file.cells[hist.accepted[j]].sync

\* C4: every packet on_thread_read forwards downstream is a payload the
\* producer pushed and starts with 0x47; a notification whose byte is
\* 0xFF forwards no packet.
C4_Forward ==
    \A i \in 1 .. Len(hist.down) :
        /\ hist.down[i].cmd = CMD_PACKET
        /\ PushedWithSync(hist.down[i].ts)

\* the sentinel is not in flight: none was sent, or it was received
SentinelReceived ==
    /\ hist.sentinels = 1
    /\ \A i \in 1 .. Len(sync.chan) : sync.chan[i] # CMD_EXIT
    /\ evl.pc \in {"idle", "stream_send", "pos_skip", "joining", "destroyed"}

C5_Inv ==
    /\ hist.sentinels <= 1
    /\ hist.sentinels = 1 => thr.pc \in {"closing", "exited"}
    /\ \A i \in 1 .. Len(hist.wakes) :
          hist.wakes[i] = CMD_EXIT => i = Len(hist.wakes)
    /\ Len(hist.wakes) =
          Len(SelectSeq(hist.wakes, IsPacketWake)) + hist.sentinels
    /\ hist.eof_calls <= hist.sentinels
    /\ (SentinelReceived /\ mod.idx_callback # 0) => hist.eof_calls = 1
    /\ (thr.pc = "exited" /\ hist.start = NULL) => hist.sentinels = 0
    /\ (thr.pc = "exited" /\ thr.len = InputSize) => hist.sentinels = 0

C5_Step ==
    hist.sentinels' > hist.sentinels =>
        /\ thr.pc = "refill_eof"
        /\ thr.len # InputSize
        /\ ~mod.loop
        /\ thr.pc' = "closing"
        /\ sync.buffer' = sync.buffer
        /\ sync.buffer_count' = sync.buffer_count
        /\ sync.buffer_write' = sync.buffer_write
        /\ hist.accepted' = hist.accepted

CellsFrom(a) == [i \in 1 .. Len(disk.file.cells) - a + 1 |-> a + i - 1]

\* C6: with loop false, pause 0, no position() call and no overflow, the
\* payloads offered before the sentinel are the packets of the file from
\* the probe's start packet through the last packet, once each, in order.
C6_WholeFile ==
    (/\ hist.sentinels = 1
     /\ ~mod.loop
     /\ ~hist.ctl
     /\ hist.dropped = 0
     /\ hist.start # NULL) => hist.offered = CellsFrom(hist.start)

\* the first cell of the file that carries a PCR
FirstPcrCell ==
    CHOOSE i \in DOMAIN disk.file.cells :
        /\ disk.file.cells[i].pcrf
        /\ \A j \in 1 .. i - 1 : ~disk.file.cells[j].pcrf

\* C7: with loop true no sentinel is sent, and the first packet pushed
\* after a short read is the first PCR packet of the file.
C7_Loop ==
    mod.loop =>
        /\ hist.sentinels = 0
        /\ (hist.after_eof \notin {NULL, 0} /\ ~hist.ctl) =>
              hist.after_eof = FirstPcrCell

ProducerRunning ==
    /\ thr.pc \notin {"closing", "exited", "crashed"}
    /\ ~sync.exit

\* C8: a position() request is pending from its return until the producer
\* has reopened the file at the requested input.skip, a reopen there
\* during the call counting too; while it is pending input.skip is the
\* requested offset and the reposition flag is up or the reopen has begun.
C8_Position ==
    (hist.request # NULL /\ ProducerRunning) =>
        /\ input.skip = hist.request
        /\ \/ mod.reposition
           \/ /\ thr.pc \in {"open_fd", "open_pread"}
              /\ thr.open_after = "repos_ret"

\* C9: the value the startup read yields is the value timer_skip_set
\* wrote, and the first read of the restarted run is at that value when
\* it is below the file size and at 0 otherwise.
C9_RoundTrip ==
    (hist.lock_written # NULL /\ hist.lock_read # NULL) =>
        /\ hist.lock_read = hist.lock_written
        /\ hist.first_read # NULL =>
              hist.first_read = IF hist.lock_written < FileSize(disk.file)
                                THEN hist.lock_written ELSE 0

\* the producer sleeps in one of the two pause loops, which test nothing
\* but the pause flag (lines 315-316 and 407-408)
ProducerInPauseLoop ==
    /\ thr.pc \in {"pause_wait", "in_pause_wait"}
    /\ mod.pause # 0

\* C11: once module_destroy has requested the stop and waits in the join,
\* the producer is never held in a loop that does not test the stop flag:
\* it can always go on to the test of line 311 and exit. While the event
\* loop thread is in the join no script call can change the pause flag.
C11_Teardown == evl.pc = "joining" => ~ProducerInPauseLoop

\* C12: while pause is nonzero the producer offers at most one further
\* payload, the one that had passed its pause test; after the pause loop of
\* the outer iteration is left, time_sync_b is a new reading and
\* block_time_total, total_sync_diff and pause_total are 0 until the next
\* block is paced.
C12_Pause ==
    /\ hist.paused_offers <= 1
    /\ thr.resumed => thr.acc = ResetAcc

\* a pause that began inside a block, let one payload through and ended
\* in the outer loop, after the accumulators had values other than 0
C12_Witness ==
    /\ thr.resumed
    /\ thr.pc = "seek"
    /\ hist.paused_offers = 1
    /\ mod.pause = 0
    /\ Len(hist.offered) >= 3

\* C13: position(ms) with ms >= length, with a stream that is not M2TS, or
\* with no argument returns 0 and leaves reposition and file_skip alone: no
\* call whose ms is at least length gets past the test of line 520.
C13_NoOp == evl.pc = "pos_skip" => ~LuaGE(evl.ms, mod.length)

\* the length the probe of an M2TS file gives: the time of the last cell
\* less the time of the first cell, in seconds
ProbedLength(f) ==
    IF f.exists /\ f.cs = M2TS_PACKET_SIZE
    THEN f.cells[Len(f.cells)].time \div 1000 - f.cells[1].time \div 1000
    ELSE 0

\* C14: with check_length = true open_file runs only on an allocated input
\* window of size > 0, and after module_init length is the probed length
\* of the file.
C14_CheckLength ==
    /\ thr.pc = "open_pread" => input.size > 0
    /\ thr.pc = "not_started" => mod.length = ProbedLength(disk.file)

\* C15: when the first open_file returns, ts_size is 188 iff the bytes at
\* window offsets 0 and 188 are both 0x47, else 192 iff the bytes at 4 and
\* 196 are; with neither the open has failed and fd is 0; after a
\* successful return ts_size is 188 or 192.
C15_Format ==
    (thr.pc = "start_ret" /\ disk.file.exists) =>
        LET f == disk.file
            o == hist.first_read
            is188 == /\ FileByteIsSync(f, o)
                     /\ FileByteIsSync(f, o + TS_PACKET_SIZE)
            is192 == /\ ~is188
                     /\ FileByteIsSync(f, o + 4)
                     /\ FileByteIsSync(f, o + 4 + M2TS_PACKET_SIZE)
        IN  /\ mod.ts_size = TS_PACKET_SIZE <=> is188
            /\ mod.ts_size = M2TS_PACKET_SIZE <=> is192
            /\ ~is188 /\ ~is192 => thr.open_ret = 0 /\ mod.fd = 0
            /\ thr.open_ret = 1 =>
                   mod.ts_size \in {TS_PACKET_SIZE, M2TS_PACKET_SIZE}

\* window offsets of the packets that were read and satisfy check_pcr,
\* counted in ts_size strides from the window start
PcrOffsets ==
    {(k - 1) * mod.ts_size : k \in {j \in DOMAIN input.buffer :
         input.buffer[j] # Uninit /\ disk.file.cells[input.buffer[j]].pcrf}}

\* C16: after a successful probe the cursor is the lowest window offset of
\* a packet that satisfies check_pcr, the packet at the window start
\* included, and pcr_last is the PCR of that packet.
C16_Cursor ==
    (/\ thr.pc = "start_ret"
     /\ thr.open_ret = 1
     /\ mod.ts_size = disk.file.cs) =>
        /\ input.ptr \in PcrOffsets
        /\ \A q \in PcrOffsets : input.ptr <= q
        /\ mod.pcr = CellOf(input.buffer, input.ptr, mod.ts_size).pcr

\* C17: after the probe of an M2TS file start_time is the timestamp of the
\* first cell of the file divided by 1000, and length is the timestamp of
\* the last cell divided by 1000 less start_time, or 0 when the last cell
\* has no sync byte.
C17_M2tsTimes ==
    (/\ thr.pc = "start_ret"
     /\ thr.open_ret = 1
     /\ mod.ts_size = M2TS_PACKET_SIZE) =>
        LET cells == disk.file.cells
            last == cells[Len(cells)]
        IN  /\ mod.start_time = cells[1].time \div 1000
            /\ mod.length = IF last.sync
                            THEN Sub32(last.time \div 1000, mod.start_time)
                            ELSE 0

\* the window of the first probe was read in full, has a format and holds
\* no packet that satisfies check_pcr
ProbeWindowHasNoPcr ==
    LET f == disk.file
    IN  /\ f.exists
        /\ input.size > 0
        /\ FileSize(f) >= input.size
        /\ \A k \in 1 .. WinEntries(f) : f.cells[k].sync /\ ~f.cells[k].pcrf

\* C18: when no packet of the probe window satisfies check_pcr, open_file
\* fails with fd = 0 and the producer exits with no payload and no
\* sentinel pushed, and nothing is read through a null cursor.
C18_NoPcr ==
    ProbeWindowHasNoPcr =>
        /\ thr.pc \in {"open_fd", "open_pread", "start_ret", "exited"}
        /\ thr.pc \in {"start_ret", "exited"} => mod.fd = 0
        /\ hist.offered = <<>>
        /\ hist.sentinels = 0

\* C19: when the file is smaller than the input window the first open_file
\* still probes: on its successful return ts_size is 188 or 192 and the
\* cursor is at the first packet that carries a PCR.
C19_TooSmall ==
    (/\ thr.pc = "start_ret"
     /\ thr.open_ret = 1
     /\ FileSize(disk.file) < input.size) =>
        /\ mod.ts_size \in {TS_PACKET_SIZE, M2TS_PACKET_SIZE}
        /\ input.ptr = (FirstPcrCell - 1) * mod.ts_size

\* C20: with loop false, pause 0 and no position() or teardown request
\* every refill makes progress through the file: the pread of a refill is
\* at a greater input.skip than before, or it is short and end of file is
\* detected.
C20_Progress ==
    [][(/\ thr.pc = "refill_wr"
        /\ thr'.pc = "refill_eof"
        /\ ~mod.loop
        /\ ~hist.ctl
        /\ ~sync.exit) =>
          \/ input'.skip > input.skip
          \/ thr'.len # input.size]_vars

\* x is a whole multiple of n
IsMultiple(x, n) == IF n = 0 THEN x = 0 ELSE x % n = 0

\* the producer is inside the loop of thread_loop
PacingRunning ==
    thr.pc \in {"loop_top", "pause_chk", "pause_wait", "repos_chk", "seek",
                "refill_rd", "refill_wr", "refill_eof", "in_pause",
                "in_pause_wait", "in_repos", "advance", "push_copy",
                "push_copy2", "push_add", "push_send"}

C22_PcrLast ==
    (/\ thr.pc = "seek"
     /\ thr.open_ret = 1
     /\ input.ptr # NULL
     /\ mod.ts_size # 0
     /\ HdrReadable(input.buffer, input.ptr, Stride(mod.ts_size))
     /\ seek_pcr(input.buffer, input.ptr, Stride(mod.ts_size)) # {NULL}) =>
        mod.pcr = CellOf(input.buffer, input.ptr, Stride(mod.ts_size)).pcr

\* C23: a step that finds a block whose PCR delta is above 250 ms, or
\* whose PCR is below pcr_last, pushes nothing, puts the cursor on the
\* block end, makes pcr_last the PCR of the block end, resets the
\* accumulators and goes back to the top of the loop.
C23_SkipBlock ==
    [][(/\ thr.pc = "seek"
        /\ thr'.pc \notin {"seek", "refill_rd", "crashed"}
        /\ \/ mod'.pcr < mod.pcr
           \/ mod'.pcr - mod.pcr > MaxBlockTicks) =>
          /\ thr'.pc = "loop_top"
          /\ hist'.offered = hist.offered
          /\ input'.ptr \in
                seek_pcr(input.buffer, input.ptr, Stride(mod.ts_size))
          /\ mod'.pcr \in
                calc_pcr(input.buffer, input'.ptr, Stride(mod.ts_size))
          /\ thr'.acc = ResetAcc]_vars

\* a block skipped because its PCR is below pcr_last, after a block that
\* was paced
C23_Witness ==
    /\ thr.pc = "loop_top"
    /\ hist.offered # <<>>
    /\ thr.acc = ResetAcc
    /\ input.ptr # NULL
    /\ input.ptr > 0
    /\ HdrReadable(input.buffer, input.ptr, Stride(mod.ts_size))
    /\ CellOf(input.buffer, input.ptr, Stride(mod.ts_size)).pcrf
    /\ CellOf(input.buffer, input.ptr, Stride(mod.ts_size)).pcr = 0
    /\ mod.pcr = 0

\* C24: when the per-packet loop is left after a push with the cursor
\* still short of the block end (the clock reading of line 427 was below
\* the reading taken at the start of the block), the reposition flag is
\* up, so that the file is reopened before the next push.
C24_Timetravel ==
    [][(/\ thr.pc = "advance"
        /\ thr'.pc = "loop_top"
        /\ input'.ptr < thr.block_end) => mod'.reposition]_vars

\* C25: when the clock reading at the end of a block is below
\* time_sync_b, the total_sync_diff the next block starts with is the
\* forced negative value.
C25_CatchUp == hist.sync_back => thr.acc.total_sync_diff = ForcedSyncDiff

\* C26: for every value of ts[6..11] calc_pcr returns base * 300 + ext,
\* base being the 33-bit number made of ts[6], ts[7], ts[8], ts[9] and
\* bit 7 of ts[10] (its bits 31 and 32 are bits 6 and 7 of ts[6]) and ext
\* the 9-bit number made of bit 0 of ts[10] and ts[11].
C26_CalcPcr ==
    thr.pc = "calc_done" =>
        /\ mod.pcr.base = [hi |-> input.buffer[6] \div 64,
                           rest |-> PcrBaseRest(input.buffer)]
        /\ mod.pcr.ext = (input.buffer[10] % 2) * 256 + input.buffer[11]

\* C27: for an M2TS stream and ms < length, position(ms) sets input.skip
\* to floor(ms * ts_count / length) * 192, the product and the quotient
\* taken exactly, and raises the reposition flag.
C27_PositionExact ==
    (/\ evl.pc = "idle"
     /\ hist.seeks = 1) =>
        /\ mod.reposition
        /\ input.skip =
              MulDivExact(hist.pos_arg, mod.file_size \div M2TS_PACKET_SIZE,
                          mod.length) * M2TS_PACKET_SIZE


\* C28: once a probe of the file has succeeded, no step changes length or
\* start_time: the reopen of a reposition or of a loop rewind leaves both
\* as the first probe set them.
C28_LengthFixed ==
    [][hist.start # NULL =>
          /\ mod'.length = mod.length
          /\ mod'.start_time = mod.start_time]_vars


\* C29: the producer never goes on from a reopen into the pacing loop with
\* the file closed (fd = 0) or with a null cursor: at the search for the
\* end of the block (line 334) the file is open and the cursor is set.
C29_FailedReopen ==
    thr.pc = "seek" => mod.fd # 0 /\ input.ptr # NULL


\* C30: on_server_close never finds the same client at the head of the
\* client list twice (the assertion of line 714 holds), no client socket is
\* closed more than once, the listening socket is closed once, and once
\* on_server_close has run to its end the listening socket and both lists
\* are NULL and idx_self is 0.
C30_ServerClose ==
    /\ evl.pc # "assert_failed"
    /\ \A c \in 1 .. MaxClients : hist.closes[c] <= 1
    /\ hist.server_closes <= 1
    /\ hist.done =>
          /\ mod.sock = 0
          /\ mod.clients = ListNull
          /\ mod.routes = ListNull
          /\ mod.idx_self = 0


\* C31: for a request with Content-Length N whose path has a route, the
\* route callback is given the request at most once, its content is the N
\* body bytes in order, it is called when the last of them has arrived, and
\* once the whole request has arrived on an open connection it has been
\* called.
C31_Content ==
    (input.cl # NULL /\ input.matched) =>
        /\ Len(hist.calls) <= 1
        /\ \A i \in 1 .. Len(hist.calls) :
              /\ hist.calls[i].has
              /\ hist.calls[i].content = input.body
              /\ hist.calls[i].at = Len(input.request)
        /\ (input.wire = <<>> /\ hist.closes = 0) => Len(hist.calls) = 1


\* the bytes of the response: the header block, then the content
FullResponse == input.header \o input.content

\* C32: the bytes the socket has taken are the first bytes of the header
\* block followed by the content, in order; the client is closed only when
\* all of them are out or a send has failed, and it is closed as soon as
\* the last of them is out.
C32_Send ==
    /\ Len(hist.sent) <= Len(FullResponse)
    /\ hist.sent = SubSeq(FullResponse, 1, Len(hist.sent))
    /\ hist.closes <= 1
    /\ mod.client.sock = 0 => (hist.failed \/ hist.sent = FullResponse)
    /\ (hist.started /\ hist.sent = FullResponse) => mod.client.sock = 0

====
